---------------------------- MODULE Spec2Model ----------------------------
(***************************************************************************)
(* A model of ZiqxAuth (src/src/auth.ts): the login redirector, the two    *)
(* remote validators (validate, strictValidate) and the local validator    *)
(* isTokenValid, run as independent calls over a clock and a network.      *)
(***************************************************************************)
EXTENDS Integers, Sequences, FiniteSets, TLC

(***************************************************************************)
(* Text.  A JavaScript string is a TLA+ string; the functions that look    *)
(* inside one work on its sequence of one-character strings.               *)
(***************************************************************************)
Chars(s) == [i \in 1..Len(s) |-> SubSeq(s, i, i)]

RECURSIVE Join(_)
Join(cs) == IF cs = <<>> THEN "" ELSE Head(cs) \o Join(Tail(cs))

(***************************************************************************)
(* JavaScript values, tagged.  An object is the sequence of its            *)
(* <<key, value>> members in source order (a later duplicate key wins).    *)
(***************************************************************************)
Undefined == [t |-> "undefined"]
Null      == [t |-> "null"]
Bool(b)   == [t |-> "bool", v |-> b]
Num(n)    == [t |-> "num", v |-> n]
Str(cs)   == [t |-> "str", v |-> cs]
Obj(ms)   == [t |-> "obj", v |-> ms]

\* ToBoolean: undefined, null, false, 0 and "" are falsy, all else truthy.
Truthy(x) ==
  CASE x.t = "undefined" -> FALSE
    [] x.t = "null"      -> FALSE
    [] x.t = "bool"      -> x.v
    [] x.t = "num"       -> x.v # 0
    [] x.t = "str"       -> Len(x.v) > 0
    [] OTHER             -> TRUE

\* x.k for a value x that is neither null nor undefined (on those the
\* property access throws a TypeError, see CanGet).  Only an object has own
\* members here; a string, number or boolean has no such property.
RECURSIVE Lookup(_, _)
Lookup(ms, k) ==
  IF ms = <<>> THEN Undefined
  ELSE IF ms[Len(ms)][1] = k THEN ms[Len(ms)][2]
  ELSE Lookup(SubSeq(ms, 1, Len(ms) - 1), k)

CanGet(x) == x.t \notin {"undefined", "null"}

Get(x, k) == IF x.t = "obj" THEN Lookup(x.v, k) ELSE Undefined

\* x === s for a string literal s.
StrictEqStr(x, s) == x.t = "str" /\ x.v = s

(***************************************************************************)
(* String.prototype.split(".") : the segments between the separators,      *)
(* empty ones included; a string without a separator is one segment.       *)
(***************************************************************************)
RECURSIVE SplitFrom(_, _, _)
SplitFrom(cs, sep, cur) ==
  IF cs = <<>> THEN <<cur>>
  ELSE IF Head(cs) = sep THEN <<cur>> \o SplitFrom(Tail(cs), sep, "")
  ELSE SplitFrom(Tail(cs), sep, cur \o Head(cs))

Split(s, sep) == SplitFrom(Chars(s), sep, "")

(***************************************************************************)
(* atob: the forgiving-base64 decode.  White space is removed; with a      *)
(* length that is a multiple of 4 up to two trailing "=" are removed; a    *)
(* remaining length of 1 modulo 4, or a character outside the alphabet,    *)
(* throws; the bits left over after the last whole byte are dropped.       *)
(* The result is a string of one character per byte.                       *)
(***************************************************************************)
B64 == Chars("ABCDEFGHIJKLMNOPQRSTUVWXYZabcdefghijklmnopqrstuvwxyz0123456789+/")

B64Chars == {B64[i] : i \in 1..64}

B64Code == [ch \in B64Chars |-> (CHOOSE i \in 1..64 : B64[i] = ch) - 1]

B64Index(ch) == B64Code[ch]

\* The characters of bytes 32..126 (byte 96, the grave accent, cannot be
\* written in a TLA+ string and is kept as a mark); a control byte and a
\* byte above 126 are kept as the two other marks.
CtlChar == "<ctl>"
HighChar == "<high>"
GraveChar == "<grave>"

Ascii ==
  Chars(" !\"#$%&'()*+,-./0123456789:;<=>?@ABCDEFGHIJKLMNOPQRSTUVWXYZ[\\]^_")
  \o <<GraveChar>> \o Chars("abcdefghijklmnopqrstuvwxyz{|}~")

ByteChar(b) ==
  IF b >= 32 /\ b <= 126 THEN Ascii[b - 31]
  ELSE IF b < 32 \/ b = 127 THEN CtlChar
  ELSE HighChar

StripWs(cs) == SelectSeq(cs, LAMBDA ch : ch # " ")

StripPad(cs) ==
  IF Len(cs) % 4 = 0 /\ Len(cs) > 0 /\ cs[Len(cs)] = "="
  THEN IF cs[Len(cs) - 1] = "="
       THEN SubSeq(cs, 1, Len(cs) - 2)
       ELSE SubSeq(cs, 1, Len(cs) - 1)
  ELSE cs

RECURSIVE DecodeGroups(_)
DecodeGroups(cs) ==
  IF Len(cs) = 0 THEN <<>>
  ELSE IF Len(cs) = 2 THEN
    LET n == B64Index(cs[1]) * 64 + B64Index(cs[2])
    IN  <<ByteChar(n \div 16)>>
  ELSE IF Len(cs) = 3 THEN
    LET n == B64Index(cs[1]) * 4096 + B64Index(cs[2]) * 64 + B64Index(cs[3])
    IN  <<ByteChar(n \div 1024), ByteChar((n \div 4) % 256)>>
  ELSE
    LET n == B64Index(cs[1]) * 262144 + B64Index(cs[2]) * 4096
             + B64Index(cs[3]) * 64 + B64Index(cs[4])
    IN  <<ByteChar(n \div 65536), ByteChar((n \div 256) % 256), ByteChar(n % 256)>>
        \o DecodeGroups(SubSeq(cs, 5, Len(cs)))

\* [ok |-> FALSE] is the thrown InvalidCharacterError; v is the sequence of
\* the decoded characters.
AtobBody(body) ==
  IF Len(body) % 4 = 1 \/ \E i \in 1..Len(body) : body[i] \notin B64Chars
  THEN [ok |-> FALSE, v |-> <<>>]
  ELSE [ok |-> TRUE, v |-> DecodeGroups(body)]

Atob(s) == AtobBody(StripPad(StripWs(Chars(s))))

(***************************************************************************)
(* JSON.parse of a sequence of characters, by recursive descent, for the   *)
(* JSON of objects, strings without escape sequences, integers and the     *)
(* three literals.  A parse step yields [ok, v, i]: the value and the      *)
(* index after it; ok = FALSE is the thrown SyntaxError.  An array, an     *)
(* escape sequence, a fraction or an exponent is outside this fragment     *)
(* and no input of the model holds one.                                    *)
(***************************************************************************)
Fail == [ok |-> FALSE, v |-> Undefined, i |-> 0]

Digits == Chars("0123456789")

IsDigit(ch) == \E d \in 1..10 : Digits[d] = ch

DigitVal(ch) == (CHOOSE d \in 1..10 : Digits[d] = ch) - 1

At(cs, i) == IF i >= 1 /\ i <= Len(cs) THEN cs[i] ELSE "<end>"

RECURSIVE SkipWs(_, _)
SkipWs(cs, i) == IF At(cs, i) = " " THEN SkipWs(cs, i + 1) ELSE i

\* The index of the closing quote of the string whose text starts at i.
RECURSIVE StringEnd(_, _)
StringEnd(cs, i) ==
  IF i > Len(cs) \/ cs[i] = "\\" \/ cs[i] = CtlChar THEN 0
  ELSE IF cs[i] = "\"" THEN i
  ELSE StringEnd(cs, i + 1)

ParseString(cs, i) ==
  LET e == StringEnd(cs, i + 1)
  IN  IF At(cs, i) # "\"" \/ e = 0 THEN Fail
      ELSE [ok |-> TRUE, v |-> Str(Join(SubSeq(cs, i + 1, e - 1))), i |-> e + 1]

RECURSIVE DigitsEnd(_, _)
DigitsEnd(cs, i) == IF IsDigit(At(cs, i)) THEN DigitsEnd(cs, i + 1) ELSE i

RECURSIVE DigitsVal(_, _, _)
DigitsVal(cs, i, e) ==
  IF e <= i THEN 0 ELSE DigitsVal(cs, i, e - 1) * 10 + DigitVal(cs[e - 1])

ParseNumber(cs, i) ==
  LET neg == At(cs, i) = "-"
      s   == IF neg THEN i + 1 ELSE i
      e   == DigitsEnd(cs, s)
  IN  IF e = s THEN Fail
      ELSE IF cs[s] = "0" /\ e > s + 1 THEN Fail
      ELSE IF At(cs, e) \in {".", "e", "E"} THEN Fail
      ELSE [ok |-> TRUE,
            v |-> Num(IF neg THEN 0 - DigitsVal(cs, s, e) ELSE DigitsVal(cs, s, e)),
            i |-> e]

StartsWith(cs, i, word) ==
  /\ i + Len(word) - 1 <= Len(cs)
  /\ SubSeq(cs, i, i + Len(word) - 1) = Chars(word)

RECURSIVE ParseValue(_, _)
RECURSIVE ParseMembers(_, _, _)

\* After "{" or ",": one member "key" : value, then "," or "}".
ParseMembers(cs, i, acc) ==
  LET k == ParseString(cs, SkipWs(cs, i))
  IN  IF ~k.ok THEN Fail
      ELSE LET c == SkipWs(cs, k.i)
           IN  IF At(cs, c) # ":" THEN Fail
               ELSE LET val == ParseValue(cs, c + 1)
                    IN  IF ~val.ok THEN Fail
                        ELSE LET n    == SkipWs(cs, val.i)
                                 acc2 == Append(acc, <<k.v.v, val.v>>)
                             IN  IF At(cs, n) = "," THEN ParseMembers(cs, n + 1, acc2)
                                 ELSE IF At(cs, n) = "}"
                                      THEN [ok |-> TRUE, v |-> Obj(acc2), i |-> n + 1]
                                 ELSE Fail

ParseValue(cs, i0) ==
  LET i  == SkipWs(cs, i0)
      ch == At(cs, i)
  IN  IF ch = "{" THEN
        IF At(cs, SkipWs(cs, i + 1)) = "}"
        THEN [ok |-> TRUE, v |-> Obj(<<>>), i |-> SkipWs(cs, i + 1) + 1]
        ELSE ParseMembers(cs, i + 1, <<>>)
      ELSE IF ch = "\"" THEN ParseString(cs, i)
      ELSE IF ch = "-" \/ IsDigit(ch) THEN ParseNumber(cs, i)
      ELSE IF StartsWith(cs, i, "true") THEN [ok |-> TRUE, v |-> Bool(TRUE), i |-> i + 4]
      ELSE IF StartsWith(cs, i, "false") THEN [ok |-> TRUE, v |-> Bool(FALSE), i |-> i + 5]
      ELSE IF StartsWith(cs, i, "null") THEN [ok |-> TRUE, v |-> Null, i |-> i + 4]
      ELSE Fail

JSONParse(cs) ==
  LET r == ParseValue(cs, 1)
  IN  IF r.ok /\ SkipWs(cs, r.i) = Len(cs) + 1
      THEN [ok |-> TRUE, v |-> r.v]
      ELSE [ok |-> FALSE, v |-> Undefined]


(***************************************************************************)
(* The relational comparison x < n with a number n on the right: ToNumber  *)
(* of x, then the numeric comparison; NaN compares false.  ToNumber is     *)
(* given for numbers, booleans, null, and strings that are empty or a      *)
(* decimal integer; every other operand counts as NaN.                     *)
(***************************************************************************)
ToNumber(x) ==
  CASE x.t = "num"  -> [nan |-> FALSE, v |-> x.v]
    [] x.t = "bool" -> [nan |-> FALSE, v |-> IF x.v THEN 1 ELSE 0]
    [] x.t = "null" -> [nan |-> FALSE, v |-> 0]
    [] x.t = "str"  ->
         LET cs == StripWs(Chars(x.v))
             r  == ParseNumber(cs, 1)
         IN  IF cs = <<>> THEN [nan |-> FALSE, v |-> 0]
             ELSE IF r.ok /\ r.i = Len(cs) + 1 THEN [nan |-> FALSE, v |-> r.v.v]
             ELSE [nan |-> TRUE, v |-> 0]
    [] OTHER        -> [nan |-> TRUE, v |-> 0]

JsLess(x, n) == ~ToNumber(x).nan /\ ToNumber(x).v < n

(***************************************************************************)
(* The state.                                                              *)
(*   clock      Date.now(), in milliseconds                                *)
(*   hasWindow  whether the global `window` is defined                     *)
(*   href       window.location.href                                       *)
(*   last       the latest synchronous call (login, isTokenValid): its     *)
(*              arguments, what it returned and logged, the clock at the   *)
(*              call, whether it reached the decode step, and the          *)
(*              navigations it made                                        *)
(*   calls      the asynchronous calls (validate, strictValidate), one     *)
(*              per caller: the method, the position in it, the token,     *)
(*              the settled fetch as the call's closure received it, what  *)
(*              the promise settled to and what the call logged            *)
(*   net        the network's side of each call: the URLs it was asked     *)
(*              for and the reply it gave                                  *)
(* A logged line is kept as the text of the first argument of             *)
(* console.error, without the leading emoji the source puts in two of      *)
(* them and without the error object that follows.                         *)
(***************************************************************************)
VARIABLES clock, hasWindow, href, last, calls, net

vars == <<clock, hasWindow, href, last, calls, net>>

API_ROOT_URL == "https://api.ziqx.in/auth"

\* The bounds of the model: the clock advances MaxTicks times by half a
\* second, and a minted token expires at -1 .. MaxExp seconds.
MaxTicks == 4
MaxExp == 2

TickMs == 1000 \div 2

Callers == {"c1", "c2"}

NoOutcome == [kind |-> "none", ok |-> FALSE, body |-> ""]
NetworkError == [kind |-> "error", ok |-> FALSE, body |-> ""]
Response(ok, body) == [kind |-> "response", ok |-> ok, body |-> body]

IdleCall == [op |-> "none", pc |-> "idle", token |-> Undefined,
             resp |-> NoOutcome, ret |-> "none", log |-> <<>>]
IdleNet == [urls |-> <<>>, reply |-> NoOutcome]
NoSync == [op |-> "none", arg |-> Undefined, isDev |-> Undefined, ret |-> "none",
           log |-> <<>>, at |-> 0, decoded |-> FALSE, navs |-> <<>>]

InitialHref == "about:blank"

Init ==
  /\ clock = 0
  /\ hasWindow \in BOOLEAN
  /\ href = InitialHref
  /\ last = NoSync
  /\ calls = [c \in Callers |-> IdleCall]
  /\ net = [c \in Callers |-> IdleNet]

\* Time passes.
Tick ==
  /\ clock + TickMs <= MaxTicks * TickMs
  /\ clock' = clock + TickMs
  /\ UNCHANGED <<hasWindow, href, last, calls, net>>

(***************************************************************************)
(* login(appId, isDev)                                                     *)
(***************************************************************************)
\* Mutant: the flag is tested for presence, not for truth.
LoginUrlWhenGiven(appId, isDev) ==
  LET isDevQuery == IF isDev # Undefined THEN "&dev=1" ELSE ""
  IN  "https://account.ziqx.cc/?appId=" \o appId \o isDevQuery

LoginUrl(appId, isDev) ==
  LET isDevQuery == IF Truthy(isDev) THEN "&dev=1" ELSE ""
  IN  "https://account.ziqx.cc/?appId=" \o appId \o isDevQuery

Login(appId, isDev) ==
  LET url == LoginUrl(appId, isDev)
      rec == [NoSync EXCEPT !.op = "login", !.arg = Str(appId), !.isDev = isDev,
                            !.ret = "undefined", !.at = clock]
  IN  /\ IF hasWindow
         THEN /\ href' = url
              /\ last' = [rec EXCEPT !.navs = <<url>>]
         ELSE /\ href' = href
              /\ last' = [rec EXCEPT !.log = <<"Login failed: Unsupported environment">>]
      /\ UNCHANGED <<clock, hasWindow, calls, net>>

(***************************************************************************)
(* isTokenValid(token), evaluated when Date.now() is nowMs: what it        *)
(* returns, what it logs, and whether it reached atob/JSON.parse.          *)
(***************************************************************************)
\* Mutant: more than three segments pass the length test.
SegmentsAtLeastThree(parts) == Len(parts) >= 3

\* Mutant: the signature segment must not be empty.
SegmentsWithSignature(parts) == Len(parts) = 3 /\ parts[3] # ""

SegmentsOk(parts) == Len(parts) = 3

Expired(payload, currentTime) ==
  Truthy(Get(payload, "exp")) /\ JsLess(Get(payload, "exp"), currentTime)

\* Mutant: a payload without an issuer passes the issuer test.
IssuerOkOrAbsent(payload) ==
  Get(payload, "iss") = Undefined \/ StrictEqStr(Get(payload, "iss"), "ziqx.cc")

IssuerOk(payload) == StrictEqStr(Get(payload, "iss"), "ziqx.cc")

\* JSON.parse(atob(parts[1])): segment 2 of the 1-based sequence.
DecodePayload(parts) ==
  LET raw == Atob(parts[2])
  IN  IF raw.ok THEN JSONParse(raw.v) ELSE [ok |-> FALSE, v |-> Undefined]

IsTokenValid(token, nowMs) ==
  IF ~Truthy(token) THEN [ret |-> "false", log |-> <<>>, decoded |-> FALSE]
  ELSE LET parts == Split(token.v, ".")
       IN  IF ~SegmentsOk(parts) THEN [ret |-> "false", log |-> <<>>, decoded |-> FALSE]
           ELSE LET parsed      == DecodePayload(parts)
                    payload     == parsed.v
                    currentTime == nowMs \div 1000
                IN  IF ~parsed.ok \/ ~CanGet(payload)
                    THEN [ret |-> "false", log |-> <<"Error decoding token:">>,
                          decoded |-> TRUE]
                    ELSE IF Expired(payload, currentTime)
                    THEN [ret |-> "false", log |-> <<"Token has expired.">>,
                          decoded |-> TRUE]
                    ELSE IF ~IssuerOk(payload)
                    THEN [ret |-> "false", log |-> <<"Invalid issuer.">>,
                          decoded |-> TRUE]
                    ELSE [ret |-> "true", log |-> <<>>, decoded |-> TRUE]

IsTokenValidCall(token) ==
  LET r == IsTokenValid(token, clock)
  IN  /\ last' = [NoSync EXCEPT !.op = "isTokenValid", !.arg = token, !.ret = r.ret,
                                !.log = r.log, !.at = clock, !.decoded = r.decoded]
      /\ UNCHANGED <<clock, hasWindow, href, calls, net>>

(***************************************************************************)
(* validate(token) and strictValidate(token).  A call starts (and, with a  *)
(* truthy token, issues its fetch), the network settles the fetch, and     *)
(* the call resumes after its await.                                       *)
(***************************************************************************)
FetchUrl(token) == API_ROOT_URL \o "/validateToken.php?token=" \o token.v

\* Mutant: the request is issued a second time.
FetchTwice(c, url) == [net EXCEPT ![c].urls = Append(Append(@, url), url)]

Fetch(c, url) == [net EXCEPT ![c].urls = Append(@, url)]

\* Mutant: the settled fetch is kept where every waiting call reads it.
DeliverShared(c, o) ==
  [d \in Callers |-> IF calls[d].pc = "await"
                     THEN [calls[d] EXCEPT !.resp = o, !.pc = "settled"]
                     ELSE calls[d]]

\* The settled fetch reaches the closure of the call that awaits it.
Deliver(c, o) == [calls EXCEPT ![c].resp = o, ![c].pc = "settled"]

\* res.json(): the body parsed, whatever the HTTP status of the response.
ResJson(o) == JSONParse(Chars(o.body))

\* Mutant: validate lets the failure of its fetch reach the caller.
ValidateOutcomeThrowing(o) ==
  IF o.kind = "error" \/ ~ResJson(o).ok
  THEN [ret |-> "rejected", log |-> <<>>]
  ELSE LET resp == ResJson(o).v
       IN  IF Truthy(resp) /\ StrictEqStr(Get(resp, "status"), "success")
           THEN [ret |-> "true", log |-> <<>>]
           ELSE [ret |-> "false", log |-> <<>>]

\* validate, from the settled fetch to the settled promise.
ValidateOutcome(o) ==
  IF o.kind = "error" \/ ~ResJson(o).ok
  THEN [ret |-> "false", log |-> <<"Validation failed: ">>]
  ELSE LET resp == ResJson(o).v
       IN  IF Truthy(resp) /\ StrictEqStr(Get(resp, "status"), "success")
           THEN [ret |-> "true", log |-> <<>>]
           ELSE [ret |-> "false", log |-> <<>>]

\* Mutant: any status field that is present counts as success.
StrictValidateOutcomeLoose(o) ==
  IF o.kind = "error" \/ ~ResJson(o).ok
  THEN [ret |-> "false", log |-> <<"Validation failed: ">>]
  ELSE LET resp == ResJson(o).v
       IN  IF Truthy(resp) /\ Truthy(Get(resp, "status"))
           THEN [ret |-> "true", log |-> <<>>]
           ELSE [ret |-> "false", log |-> <<>>]

\* strictValidate, from the settled fetch to the settled promise.
StrictValidateOutcome(o) ==
  IF o.kind = "error" \/ ~ResJson(o).ok
  THEN [ret |-> "false", log |-> <<"Validation failed: ">>]
  ELSE LET resp == ResJson(o).v
       IN  IF Truthy(resp) /\ StrictEqStr(Get(resp, "status"), "success")
           THEN [ret |-> "true", log |-> <<>>]
           ELSE [ret |-> "false", log |-> <<>>]

ValidateStart(c, token) ==
  /\ calls[c].pc = "idle"
  /\ IF Truthy(token)
     THEN /\ net' = Fetch(c, FetchUrl(token))
          /\ calls' = [calls EXCEPT ![c] = [IdleCall EXCEPT !.op = "validate",
                                             !.pc = "await", !.token = token]]
     ELSE /\ net' = net
          /\ calls' = [calls EXCEPT ![c] = [IdleCall EXCEPT !.op = "validate",
                                             !.pc = "done", !.token = token,
                                             !.ret = "false"]]
  /\ UNCHANGED <<clock, hasWindow, href, last>>

StrictValidateStart(c, token) ==
  /\ calls[c].pc = "idle"
  /\ IF Truthy(token)
     THEN /\ net' = Fetch(c, FetchUrl(token))
          /\ calls' = [calls EXCEPT ![c] = [IdleCall EXCEPT !.op = "strictValidate",
                                             !.pc = "await", !.token = token]]
     ELSE /\ net' = net
          /\ calls' = [calls EXCEPT ![c] = [IdleCall EXCEPT !.op = "strictValidate",
                                             !.pc = "done", !.token = token,
                                             !.ret = "false"]]
  /\ UNCHANGED <<clock, hasWindow, href, last>>

\* The network answers the one request of call c: the fetch rejects
\* (NetworkError) or resolves with a response.
Settle(c, o) ==
  /\ calls[c].pc = "await"
  /\ net[c].reply = NoOutcome
  /\ net' = [net EXCEPT ![c].reply = o]
  /\ calls' = Deliver(c, o)
  /\ UNCHANGED <<clock, hasWindow, href, last>>

ValidateResume(c) ==
  /\ calls[c].pc = "settled"
  /\ calls[c].op = "validate"
  /\ LET r == ValidateOutcome(calls[c].resp)
     IN  calls' = [calls EXCEPT ![c].pc = "done", ![c].ret = r.ret, ![c].log = r.log]
  /\ UNCHANGED <<clock, hasWindow, href, last, net>>

StrictValidateResume(c) ==
  /\ calls[c].pc = "settled"
  /\ calls[c].op = "strictValidate"
  /\ LET r == StrictValidateOutcome(calls[c].resp)
     IN  calls' = [calls EXCEPT ![c].pc = "done", ![c].ret = r.ret, ![c].log = r.log]
  /\ UNCHANGED <<clock, hasWindow, href, last, net>>

\* The caller takes the settled promise; the caller may call again.
Return(c) ==
  /\ calls[c].pc = "done"
  /\ calls' = [calls EXCEPT ![c] = IdleCall]
  /\ net' = [net EXCEPT ![c] = IdleNet]
  /\ UNCHANGED <<clock, hasWindow, href, last>>

(***************************************************************************)
(* The inputs.  A token is minted as a caller would receive it: a header   *)
(* segment, the base64 (btoa) of the JSON text of the claims, a signature  *)
(* segment.                                                                *)
(***************************************************************************)
Ord(ch) == (CHOOSE i \in 1..Len(Ascii) : Ascii[i] = ch) + 31

RECURSIVE EncodeGroups(_)
EncodeGroups(bs) ==
  IF Len(bs) = 0 THEN ""
  ELSE IF Len(bs) = 1 THEN
    B64[(bs[1] \div 4) + 1] \o B64[((bs[1] % 4) * 16) + 1] \o "=="
  ELSE IF Len(bs) = 2 THEN
    B64[(bs[1] \div 4) + 1] \o B64[((bs[1] % 4) * 16) + (bs[2] \div 16) + 1]
      \o B64[((bs[2] % 16) * 4) + 1] \o "="
  ELSE
    B64[(bs[1] \div 4) + 1] \o B64[((bs[1] % 4) * 16) + (bs[2] \div 16) + 1]
      \o B64[((bs[2] % 16) * 4) + (bs[3] \div 64) + 1] \o B64[(bs[3] % 64) + 1]
      \o EncodeGroups(SubSeq(bs, 4, Len(bs)))

Btoa(s) == EncodeGroups([i \in 1..Len(s) |-> Ord(Chars(s)[i])])

RECURSIVE IntText(_)
IntText(n) ==
  IF n < 0 THEN "-" \o IntText(0 - n)
  ELSE IF n < 10 THEN Digits[n + 1]
  ELSE IntText(n \div 10) \o Digits[(n % 10) + 1]

\* The JSON text of the claims {exp, iss}; Undefined leaves the claim out.
ClaimsText(exp, iss) ==
  LET e == IF exp = Undefined THEN <<>> ELSE <<"\"exp\":" \o IntText(exp.v)>>
      i == IF iss = Undefined THEN <<>> ELSE <<"\"iss\":\"" \o iss.v \o "\"">>
      m == e \o i
  IN  "{" \o (IF m = <<>> THEN "" ELSE IF Len(m) = 1 THEN m[1] ELSE m[1] \o "," \o m[2])
          \o "}"

Header == "eyJhbGciOiJIUzI1NiJ9"
Signature == "c2ln"

Mint(payloadText, sig) == Str(Header \o "." \o Btoa(payloadText) \o "." \o sig)

ExpValues == {Undefined} \cup {Num(n) : n \in -1..MaxExp}
IssValues == {Undefined, Str("ziqx.cc"), Str("evil.cc")}

ClaimTokens == {Mint(ClaimsText(e, i), Signature) : e \in ExpValues, i \in IssValues}

OtherTokens ==
  { Undefined, Str(""), Str("abc"), Str("a.b"), Str("a.b.c.d"), Str(".."),
    Str(Header \o ".@@@." \o Signature),
    Str(Header \o ".eyJpc3MiOiJ6aXF4LmNjIn0."),
    Mint("null", Signature),
    Mint("{\"exp\":1", Signature),
    Mint("{\"exp\":\"1\",\"iss\":\"ziqx.cc\"}", Signature) }

LocalTokens == ClaimTokens \cup OtherTokens

AppIds == {"APP_ID", "a&dev=1"}
IsDevValues == {Undefined, Bool(FALSE), Bool(TRUE)}

RemoteTokens == {Undefined, Str(""), Str("TOKEN"), Mint(ClaimsText(Undefined, Str("ziqx.cc")), Signature)}

Bodies ==
  { "{\"status\":\"success\"}", "{\"status\":\"failure\"}", "{\"ok\":true}",
    "null", "\"success\"", "<html>Bad Gateway</html>" }

Outcomes == {NetworkError} \cup {Response(ok, b) : ok \in BOOLEAN, b \in Bodies}

\* The login redirector, over every input.
NextLogin ==
  \/ Tick
  \/ \E a \in AppIds, d \in IsDevValues : Login(a, d)

SpecLogin == Init /\ [][NextLogin]_vars

\* The local validator, over every token and every time.
NextLocal ==
  \/ Tick
  \/ \E t \in LocalTokens : IsTokenValidCall(t)

SpecLocal == Init /\ [][NextLocal]_vars

\* The remote validators, two callers at once, over every reply.
NextRemote ==
  \/ \E c \in Callers, t \in RemoteTokens : ValidateStart(c, t)
  \/ \E c \in Callers, t \in RemoteTokens : StrictValidateStart(c, t)
  \/ \E c \in Callers, o \in Outcomes : Settle(c, o)
  \/ \E c \in Callers : ValidateResume(c)
  \/ \E c \in Callers : StrictValidateResume(c)
  \/ \E c \in Callers : Return(c)

SpecRemote == Init /\ [][NextRemote]_vars

\* The validators together: local calls between the steps of two remote
\* callers, over a few inputs of each kind.
FewLocalTokens == {Mint(ClaimsText(Num(1), Str("ziqx.cc")), Signature)}
FewRemoteTokens == {Str("TOKEN")}
FewOutcomes ==
  { NetworkError, Response(TRUE, "{\"status\":\"success\"}"),
    Response(FALSE, "{\"status\":\"failure\"}") }

Next ==
  \/ Tick
  \/ \E t \in FewLocalTokens : IsTokenValidCall(t)
  \/ \E c \in Callers, t \in FewRemoteTokens : ValidateStart(c, t)
  \/ \E c \in Callers, t \in FewRemoteTokens : StrictValidateStart(c, t)
  \/ \E c \in Callers, o \in FewOutcomes : Settle(c, o)
  \/ \E c \in Callers : ValidateResume(c)
  \/ \E c \in Callers : StrictValidateResume(c)
  \/ \E c \in Callers : Return(c)

Spec == Init /\ [][Next]_vars

(***************************************************************************)
(* The claims.                                                             *)
(***************************************************************************)
\* The number of segments of a string, counted by its separators.
SegmentCount(s) == Cardinality({i \in 1..Len(s) : SubSeq(s, i, i) = "."}) + 1

LastLocal == last.op = "isTokenValid"

\* The latest isTokenValid call had a token of exactly three segments
\* whose middle segment decodes to a JSON object.
LastHasClaims ==
  /\ LastLocal
  /\ last.arg.t = "str"
  /\ SegmentCount(last.arg.v) = 3
  /\ DecodePayload(Split(last.arg.v, ".")).ok
  /\ DecodePayload(Split(last.arg.v, ".")).v.t = "obj"

LastClaim(k) == Get(DecodePayload(Split(last.arg.v, ".")).v, k)

LastCurrentTime == last.at \div 1000

ExpAbsentOrNotPast ==
  \/ LastClaim("exp") = Undefined
  \/ LastClaim("exp").t = "num" /\ LastClaim("exp").v >= LastCurrentTime

C2_ExpiredRejected ==
  (LastHasClaims /\ LastClaim("exp").t = "num")
    => /\ LastClaim("exp").v < LastCurrentTime => last.ret = "false"
       /\ LastClaim("exp").v >= LastCurrentTime
            => last.log # <<"Token has expired.">>

\* C3: an empty or undefined token, and a token whose number of segments
\* is not 3, is rejected without reaching atob/JSON.parse.
C3_MalformedRejectedBeforeDecode ==
  (LastLocal /\ (IF last.arg.t = "str"
                 THEN last.arg.v = "" \/ SegmentCount(last.arg.v) # 3
                 ELSE last.arg = Undefined))
    => last.ret = "false" /\ ~last.decoded /\ last.log = <<>>

C3_Witness ==
  /\ LastLocal
  /\ last.arg.t = "str"
  /\ SegmentCount(last.arg.v) = 4
  /\ last.ret = "false"
  /\ ~last.decoded

\* The reply is a response whose body is a JSON object with the field
\* status equal to "success".
ReportsSuccess(o) ==
  /\ o.kind = "response"
  /\ JSONParse(Chars(o.body)).ok
  /\ JSONParse(Chars(o.body)).v.t = "obj"
  /\ Lookup(JSONParse(Chars(o.body)).v.v, "status") = Str("success")

Finished(c, op) == calls[c].op = op /\ calls[c].pc = "done"

\* C4: with a non-empty token, strictValidate resolves, and resolves to
\* true exactly when the body of the reply is JSON with status "success".
C4_TrueIffStatusSuccess ==
  \A c \in Callers :
    (Finished(c, "strictValidate") /\ Truthy(calls[c].token))
      => /\ calls[c].ret \in {"true", "false"}
         /\ calls[c].ret = "true" <=> ReportsSuccess(net[c].reply)

C4_Witness ==
  \E c \in Callers :
    /\ Finished(c, "strictValidate")
    /\ Truthy(calls[c].token)
    /\ calls[c].ret = "true"
    /\ ReportsSuccess(net[c].reply)

\* The reply is one of the failures: the fetch rejected, the response is
\* not 2xx, the body is not JSON, or the JSON is not an object.
IsFailure(o) ==
  \/ o.kind = "error"
  \/ /\ o.kind = "response"
     /\ \/ ~o.ok
        \/ ~JSONParse(Chars(o.body)).ok
        \/ JSONParse(Chars(o.body)).v.t # "obj"

\* C5, as stated: whenever the network call fails (a network error, a
\* non-2xx response, a body that is not JSON, JSON of another shape), the
\* promise of validate and of strictValidate resolves to false.
C5_FailureResolvesFalse ==
  \A c \in Callers :
    (calls[c].pc = "done" /\ Truthy(calls[c].token) /\ IsFailure(net[c].reply))
      => calls[c].ret = "false"

\* C6: a call with a falsy token issues no request, a call with a truthy
\* token issues exactly one, from its start to its end, whatever the reply.
C6_AtMostOneRequest ==
  \A c \in Callers :
    /\ Len(net[c].urls) <= 1
    /\ calls[c].pc # "idle"
         => Len(net[c].urls) = IF Truthy(calls[c].token) THEN 1 ELSE 0

C6_Witness ==
  \E c \in Callers :
    /\ calls[c].pc = "done"
    /\ Truthy(calls[c].token)
    /\ net[c].reply = NetworkError
    /\ calls[c].ret = "false"
    /\ Len(net[c].urls) = 1

\* C7: with a window, login navigates once, to the provider URL with the
\* exact appId and with "&dev=1" appended only for a true isDev; without
\* a window it navigates nowhere and logs the error.
C7_LoginNavigation ==
  last.op = "login"
    => LET url == "https://account.ziqx.cc/?appId=" \o last.arg.v
                    \o (IF last.isDev = Bool(TRUE) THEN "&dev=1" ELSE "")
       IN  IF hasWindow
           THEN last.navs = <<url>> /\ href = url /\ last.log = <<>>
           ELSE /\ last.navs = <<>>
                /\ href = InitialHref
                /\ last.log = <<"Login failed: Unsupported environment">>

C7_Witness ==
  /\ last.op = "login"
  /\ hasWindow
  /\ last.isDev = Bool(FALSE)
  /\ href = "https://account.ziqx.cc/?appId=APP_ID"

\* What a call returns when it runs alone, from its token and its reply.
Alone(op, token, o) ==
  IF ~Truthy(token) THEN "false"
  ELSE IF op = "validate" THEN ValidateOutcome(o).ret
  ELSE StrictValidateOutcome(o).ret

\* C8: with validations running at once, each remote call receives the
\* reply to its own request and settles to what it returns when run alone
\* on its token and that reply; a local call returns what it returns alone
\* on its token at its time.
C8_NoInterference ==
  /\ \A c \in Callers :
       /\ calls[c].pc \in {"settled", "done"} /\ Truthy(calls[c].token)
            => calls[c].resp = net[c].reply /\ net[c].reply # NoOutcome
       /\ calls[c].pc = "done"
            => calls[c].ret = Alone(calls[c].op, calls[c].token, net[c].reply)
  /\ LastLocal => last.ret = IsTokenValid(last.arg, last.at).ret

C8_Witness ==
  /\ calls["c1"].pc = "done" /\ calls["c1"].ret = "true"
  /\ calls["c2"].pc = "done" /\ calls["c2"].ret = "false"
  /\ LastLocal /\ last.ret = "true"

\* C9: validate and strictValidate, given the same token and the same
\* reply, issue the same request, log the same and settle the same.
C9_ValidateEquivalent ==
  \A c, d \in Callers :
    (/\ Finished(c, "validate")
     /\ Finished(d, "strictValidate")
     /\ calls[c].token = calls[d].token
     /\ net[c].reply = net[d].reply)
      => /\ net[c].urls = net[d].urls
         /\ calls[c].log = calls[d].log
         /\ calls[c].ret = calls[d].ret

C9_Witness ==
  /\ Finished("c1", "validate")
  /\ Finished("c2", "strictValidate")
  /\ calls["c1"].token = calls["c2"].token
  /\ net["c1"].reply = NetworkError
  /\ net["c2"].reply = NetworkError
  /\ calls["c1"].log = <<"Validation failed: ">>

SignatureVariants == {"", "c2ln", "x", "!!"}

\* C10: the result of isTokenValid on a three-segment token is the result
\* on the same first two segments with any other dot-free third segment,
\* the empty one included, at the same time.
C10_SignatureIgnored ==
  (LastLocal /\ last.arg.t = "str" /\ SegmentCount(last.arg.v) = 3)
    => LET parts == Split(last.arg.v, ".")
       IN  \A sig \in SignatureVariants :
             IsTokenValid(Str(parts[1] \o "." \o parts[2] \o "." \o sig), last.at).ret
               = last.ret

C10_Witness ==
  /\ LastLocal
  /\ last.arg.t = "str"
  /\ SegmentCount(last.arg.v) = 3
  /\ Split(last.arg.v, ".")[3] = ""
  /\ last.ret = "true"
=============================================================================
